---- MODULE Spec2Model ----
(***************************************************************************)
(* Availability resolution engine of the Calendly / ElevenLabs bridge      *)
(* (src/services/calendlyService.js): the date range resolver              *)
(* getDateRange with its helpers getNextMonday and getStartOfWeek, and     *)
(* the slot enumerator processTimeSlotsForPeriod, the summarizer           *)
(* processAvailabilityToSummary, the provider query getAvailabilityData,   *)
(* and the four request handlers that chain them (routes/elevenlabs.js,    *)
(* routes/calendly.js); the caller zone detection detectTimeZone           *)
(* (utils/time-utils.js) and the two authentication middlewares with the   *)
(* order in which server.js mounts them.                                   *)
(*                                                                         *)
(* Instants are JavaScript time values: signed integer milliseconds.  The  *)
(* reference instant 0 is a Monday 00:00:00.000 UTC (the JavaScript epoch  *)
(* is a Thursday; only the weekday of the reference matters to the code).  *)
(* The host's time zone is a fixed offset from UTC (no daylight saving     *)
(* change inside the modelled weeks); every local-time method of Date      *)
(* (getDay, setDate, setHours, toDateString) goes through it, every UTC    *)
(* method (getUTCHours, toISOString, the parse of "YYYY-MM-DD") does not.  *)
(***************************************************************************)
EXTENDS Integers, Sequences, FiniteSets, TLC

VARIABLES
  now,              \* the system clock, as read by getCurrentTime().raw
  tz,               \* host time zone: local time = UTC + tz hours
  pc,               \* "idle" | "range" | "slots" (which call has returned)
  weekOffset,       \* argument of the last getDateRange call
  specificDate,     \* argument of the last getDateRange call
  range,            \* value returned by the last getDateRange call
  availabilityData, \* provider reply handed to processTimeSlotsForPeriod
  period,           \* argument of processTimeSlotsForPeriod
  eventDuration,    \* argument of processTimeSlotsForPeriod
  processedSlots,   \* value returned by processTimeSlotsForPeriod
  summary,          \* value returned by processAvailabilityToSummary
  loopIdx,          \* enumerator loop: index of the interval being walked
  walkTime,         \* enumerator loop: currentTime of the while loop
  req,              \* the request a handler is serving
  hpc,              \* handler position: "idle" | "awaiting" | "done"
  calls,            \* provider calls issued for the request
  reply,            \* what the provider answered
  resp,             \* the response sent to the caller
  config,           \* the environment the process was started with
  timeZone,         \* value returned by detectTimeZone
  sessions          \* concurrent requests: each one's own local state

vars == <<now, tz, pc, weekOffset, specificDate, range,
          availabilityData, period, eventDuration, processedSlots,
          summary, loopIdx, walkTime, req, hpc, calls, reply, resp,
          config, timeZone, sessions>>

rangeVars == <<now, tz, weekOffset, specificDate, range>>
slotVars == <<availabilityData, period, eventDuration, processedSlots>>
loopVars == <<loopIdx, walkTime>>
handlerVars == <<req, hpc, calls, reply, resp>>
envVars == <<config, timeZone, sessions>>

----------------------------------------------------------------------------
(* Units *)

MsPerSecond == 1000
MsPerMinute == 60 * MsPerSecond
MsPerHour == 60 * MsPerMinute
MsPerDay == 24 * MsPerHour
MsPerWeek == 7 * MsPerDay

----------------------------------------------------------------------------
(* Bounds *)

\* The clock readings lie in the week that starts ClockWeeksBack weeks
\* before the reference Monday (time values are signed; the ranges of the
\* following weeks stay inside TLC's 32-bit integers).
ClockWeeksBack == 1

\* Largest week offset requested.
MaxWeekOffset == 2

\* Requested dates lie within MaxDateShift days of the clock's UTC day.
MaxDateShift == 2

\* Largest number of intervals in a provider reply.
MaxIntervals == 2

\* Host zones, in hours east of UTC.
Zones == {-5, 0, 2}

HourMarks == {0, 8, 9, 10, 11, 12, 16, 17, 20, 21, 23}
MinuteMarks == {0, 45, 55}
MsMarks == {-1, 0, 1}

\* Local times of day at which the clock is read: around every threshold
\* of the code (09:00 - 5 min, 17:00 - 5 min, Sunday 12:00, 21:00, midnight).
TimesOfDay ==
  { h * MsPerHour + m * MsPerMinute + d :
      h \in HourMarks, m \in MinuteMarks, d \in MsMarks }

LocalReadings ==
  { (d - ClockWeeksBack * 7) * MsPerDay + t : d \in 0..6, t \in TimesOfDay }

\* The instants at which the host's clock is read.
ClockReadings == { l - tz * MsPerHour : l \in LocalReadings }

WeekOffsets == (-1)..MaxWeekOffset

----------------------------------------------------------------------------
(* JavaScript Date, as the service uses it *)

\* The time value of an Invalid Date (NaN), kept apart from every instant.
NaN == -2147483647

\* Date.prototype.getTime() of the local wall clock: local = UTC + offset.
LocalTime(t) == t + tz * MsPerHour

\* The local calendar day of an instant, as a day count from the reference
\* Monday.  toDateString() prints exactly this day (weekday, month, day,
\* year), so two instants have equal toDateString() iff equal day count.
\* An Invalid Date prints "Invalid Date", which no valid date prints.
toDateString(t) == IF t = NaN THEN NaN ELSE LocalTime(t) \div MsPerDay

\* Date.prototype.getDay(): 0 = Sunday ... 6 = Saturday, local.
getDay(t) == (toDateString(t) + 1) % 7

\* date.setDate(date.getDate() + k): the same local time of day k days on.
\* Every call in the service takes getDate() from a date equal to the one
\* it sets, so the month overflow of setDate is exact.
setDateRelative(t, k) == t + k * MsPerDay

\* date.setHours(h, m, s, ms): the same local day at the given local time.
\* An Invalid Date stays invalid.
setHours(t, h, m, s, ms) ==
  IF t = NaN
  THEN NaN
  ELSE toDateString(t) * MsPerDay
         + h * MsPerHour + m * MsPerMinute + s * MsPerSecond + ms
         - tz * MsPerHour

\* A date argument: null, a "YYYY-MM-DD" string naming calendar day n
\* (the format the agent prompt and the REST route document), or a string
\* that new Date() cannot parse.
NoDate == [kind |-> "null"]
DateString(n) == [kind |-> "ymd", day |-> n]
InvalidDateString == [kind |-> "invalid"]

\* new Date("YYYY-MM-DD"): a date-only ISO string is parsed as UTC midnight;
\* an unparsable string gives an Invalid Date.
ParseDate(d) == IF d.kind = "ymd" THEN d.day * MsPerDay ELSE NaN

----------------------------------------------------------------------------
(* calendlyService.js *)

SAFETY_BUFFER_MS == 5 * 60 * 1000
WORKDAY_START_HOUR == 9
WORKDAY_END_HOUR == 17

\* Mutant: a lead of a full day.
schedulingBuffer_fullDay == 24 * 60 * 60 * 1000

schedulingBuffer == 3 * 60 * 60 * 1000

\* Mutant: the Sunday case of diff is lost.
getNextMonday_noSundayCase(date) ==
  LET day == getDay(date)
      diff == 8 - day
  IN setHours(setDateRelative(date, diff), 0, 0, 0, 0)

getNextMonday(date) ==
  LET day == getDay(date)
      diff == IF day = 0 THEN 1 ELSE 8 - day
  IN setHours(setDateRelative(date, diff), 0, 0, 0, 0)

getStartOfWeek(date) ==
  LET day == getDay(date)
      \* diff = getDate() - day + (day === 0 ? -6 : 1), relative to getDate()
      diff == (IF day = 0 THEN -6 ELSE 1) - day
  IN setHours(setDateRelative(date, diff), 0, 0, 0, 0)

\* isToday of getDateRange
isToday(clock, date) == toDateString(ParseDate(date)) = toDateString(clock)

\* Mutant: the start is not capped at the end of the working day.
getDateRangeToday_noCap(clock, date) ==
  LET nowPlusBuffer == clock + SAFETY_BUFFER_MS
      workingDayStart == setHours(ParseDate(date), WORKDAY_START_HOUR, 0, 0, 0)
      workingDayEnd == setHours(ParseDate(date), WORKDAY_END_HOUR, 0, 0, 0)
      clamped == IF nowPlusBuffer > workingDayStart
                 THEN nowPlusBuffer ELSE workingDayStart
  IN [startTime |-> clamped, endTime |-> workingDayEnd]

\* Mutant: the safety buffer is not added to the clock reading.
getDateRangeToday_noBuffer(clock, date) ==
  LET nowPlusBuffer == clock
      workingDayStart == setHours(ParseDate(date), WORKDAY_START_HOUR, 0, 0, 0)
      workingDayEnd == setHours(ParseDate(date), WORKDAY_END_HOUR, 0, 0, 0)
      clamped == IF nowPlusBuffer > workingDayStart
                 THEN nowPlusBuffer ELSE workingDayStart
      startTime == IF clamped > workingDayEnd THEN workingDayEnd ELSE clamped
  IN [startTime |-> startTime, endTime |-> workingDayEnd]

\* getDateRange, specific date, "today" branch
getDateRangeToday(clock, date) ==
  LET nowPlusBuffer == clock + SAFETY_BUFFER_MS
      workingDayStart == setHours(ParseDate(date), WORKDAY_START_HOUR, 0, 0, 0)
      workingDayEnd == setHours(ParseDate(date), WORKDAY_END_HOUR, 0, 0, 0)
      clamped == IF nowPlusBuffer > workingDayStart
                 THEN nowPlusBuffer ELSE workingDayStart
      startTime == IF clamped > workingDayEnd THEN workingDayEnd ELSE clamped
  IN [startTime |-> startTime, endTime |-> workingDayEnd]

\* getDateRange, specific date, future / past day branch
getDateRangeOtherDay(date) ==
  LET startTime == setHours(ParseDate(date), 0, 0, 0, 0)
      endTime == setHours(startTime, 23, 59, 59, 999)
  IN [startTime |-> startTime, endTime |-> endTime]

\* getDateRange, specific date
getDateRangeSpecific(clock, date) ==
  IF isToday(clock, date)
  THEN getDateRangeToday(clock, date)
  ELSE getDateRangeOtherDay(date)

\* The `readable` field: toLocaleString with weekday, year, month and day
\* prints the local calendar day.
readable(s, e) == [start |-> toDateString(s), end |-> toDateString(e)]

\* Mutant: only Saturday counts as the weekend.
rollsOver_saturdayOnly(clock, fullWeekEnd) ==
  LET dayOfWeek == getDay(clock)
      isWeekend == dayOfWeek = 6
  IN isWeekend /\ (fullWeekEnd - clock) < 12 * MsPerHour

\* Mutant: the 12-hour condition is lost; every weekend instant rolls over.
rollsOver_anyWeekend(clock, fullWeekEnd) ==
  LET dayOfWeek == getDay(clock)
      isWeekend == dayOfWeek = 0 \/ dayOfWeek = 6
  IN isWeekend

\* Mutant: exactly 12 hours left count as "less than 12 hours".
rollsOver_inclusive(clock, fullWeekEnd) ==
  LET dayOfWeek == getDay(clock)
      isWeekend == dayOfWeek = 0 \/ dayOfWeek = 6
  IN isWeekend /\ (fullWeekEnd - clock) <= 12 * MsPerHour

\* The rollover test of the current-week branch.  hoursUntilWeekEnd is the
\* real quotient (fullWeekEnd - now) / 3600000; it is below 12 exactly
\* when the difference in milliseconds is below 12 hours.
rollsOver(clock, fullWeekEnd) ==
  LET dayOfWeek == getDay(clock)
      isWeekend == dayOfWeek = 0 \/ dayOfWeek = 6
  IN isWeekend /\ (fullWeekEnd - clock) < 12 * MsPerHour

\* Mutant: the 3-hour lead clamp is lost.
getDateRangeCurrentWeek_noLead(clock) ==
  LET fullWeekStart == getStartOfWeek(clock)
      fullWeekEnd == setHours(setDateRelative(fullWeekStart, 6), 23, 59, 59, 999)
      nextWeekStart == getNextMonday(clock)
      nextWeekEnd == setHours(setDateRelative(nextWeekStart, 6), 23, 59, 59, 999)
      s0 == IF clock > fullWeekStart THEN clock ELSE fullWeekStart
      apiStartTime == IF s0 > fullWeekEnd THEN fullWeekEnd ELSE s0
  IN IF rollsOver(clock, fullWeekEnd)
     THEN [startTime |-> nextWeekStart, endTime |-> nextWeekEnd,
           readable |-> readable(nextWeekStart, nextWeekEnd)]
     ELSE [startTime |-> apiStartTime, endTime |-> fullWeekEnd,
           readable |-> readable(fullWeekStart, fullWeekEnd)]

\* getDateRange, weekOffset === 0
getDateRangeCurrentWeek(clock) ==
  LET fullWeekStart == getStartOfWeek(clock)
      fullWeekEnd == setHours(setDateRelative(fullWeekStart, 6), 23, 59, 59, 999)
      minStartTime == clock + schedulingBuffer
      nextWeekStart == getNextMonday(clock)
      nextWeekEnd == setHours(setDateRelative(nextWeekStart, 6), 23, 59, 59, 999)
      s0 == IF clock > fullWeekStart THEN clock ELSE fullWeekStart
      s1 == IF s0 < minStartTime THEN minStartTime ELSE s0
      apiStartTime == IF s1 > fullWeekEnd THEN fullWeekEnd ELSE s1
  IN IF rollsOver(clock, fullWeekEnd)
     THEN [startTime |-> nextWeekStart, endTime |-> nextWeekEnd,
           readable |-> readable(nextWeekStart, nextWeekEnd)]
     ELSE [startTime |-> apiStartTime, endTime |-> fullWeekEnd,
           readable |-> readable(fullWeekStart, fullWeekEnd)]

\* The test of the final clamp of the current-week branch:
\* apiStartTime > fullWeekEnd, after the lead has been applied.
startPastWeekEnd(clock) ==
  LET fullWeekStart == getStartOfWeek(clock)
      fullWeekEnd == setHours(setDateRelative(fullWeekStart, 6), 23, 59, 59, 999)
      minStartTime == clock + schedulingBuffer
      s0 == IF clock > fullWeekStart THEN clock ELSE fullWeekStart
      s1 == IF s0 < minStartTime THEN minStartTime ELSE s0
  IN s1 > fullWeekEnd

\* Mutant: the week end is taken seven days after the start.
getDateRangeFutureWeek_eightDays(clock, offset) ==
  LET monday == getNextMonday(clock)
      nextMonday == IF offset > 1
                    THEN setDateRelative(monday, (offset - 1) * 7)
                    ELSE monday
      startTime == nextMonday
      endTime == setHours(setDateRelative(startTime, 7), 23, 59, 59, 999)
  IN [startTime |-> startTime, endTime |-> endTime,
      readable |-> readable(startTime, endTime)]

\* Mutant: the offset is applied whatever its sign.
getDateRangeFutureWeek_signedOffset(clock, offset) ==
  LET monday == getNextMonday(clock)
      nextMonday == setDateRelative(monday, (offset - 1) * 7)
      startTime == nextMonday
      endTime == setHours(setDateRelative(startTime, 6), 23, 59, 59, 999)
  IN [startTime |-> startTime, endTime |-> endTime,
      readable |-> readable(startTime, endTime)]

\* Mutant: the end is taken six days from the clock reading instead of six
\* days from the start of the requested week.
getDateRangeFutureWeek_endFromNow(clock, offset) ==
  LET monday == getNextMonday(clock)
      nextMonday == IF offset > 1
                    THEN setDateRelative(monday, (offset - 1) * 7)
                    ELSE monday
      startTime == nextMonday
      endTime == setHours(setDateRelative(clock, 6), 23, 59, 59, 999)
  IN [startTime |-> startTime, endTime |-> endTime,
      readable |-> readable(startTime, endTime)]

\* getDateRange, weekOffset !== 0
getDateRangeFutureWeek(clock, offset) ==
  LET monday == getNextMonday(clock)
      nextMonday == IF offset > 1
                    THEN setDateRelative(monday, (offset - 1) * 7)
                    ELSE monday
      startTime == nextMonday
      endTime == setHours(setDateRelative(startTime, 6), 23, 59, 59, 999)
  IN [startTime |-> startTime, endTime |-> endTime,
      readable |-> readable(startTime, endTime)]

getDateRange(clock, offset, date) ==
  IF date # NoDate
  THEN getDateRangeSpecific(clock, date)
  ELSE IF offset = 0
       THEN getDateRangeCurrentWeek(clock)
       ELSE getDateRangeFutureWeek(clock, offset)

----------------------------------------------------------------------------
(* processTimeSlotsForPeriod *)

\* Date.prototype.getUTCHours()
getUTCHours(t) == (t \div MsPerHour) % 24

\* toLocaleTimeString('en-US', {hour, minute, timeZone: 'UTC'}): the UTC
\* minute of the day ("9:30 AM" is minute 570).
toLocaleTimeString(t) == (t \div MsPerMinute) % (24 * 60)

\* Mutant: the afternoon range loses its upper bound.
inPeriod_openAfternoon(slot, p) ==
  LET hour == getUTCHours(slot.start_time)
  IN IF p = "morning"
     THEN hour >= 5 /\ hour < 12
     ELSE hour >= 12

\* The filter callback: the period test on the interval's UTC start hour.
\* Every period other than 'morning' takes the afternoon range.
inPeriod(slot, p) ==
  LET hour == getUTCHours(slot.start_time)
  IN IF p = "morning"
     THEN hour >= 5 /\ hour < 12
     ELSE hour >= 12 /\ hour < 17

\* Mutant: the default block is the event duration itself.
slotEndOf_blockIsDuration(slot, duration) ==
  IF "end_time" \in DOMAIN slot
  THEN slot.end_time
  ELSE slot.start_time + duration * 60 * 1000

\* slotEnd: the interval's end_time when it has one, else the default block.
slotEndOf(slot, duration) ==
  IF "end_time" \in DOMAIN slot
  THEN slot.end_time
  ELSE LET defaultBlockDuration == IF duration = 60 THEN 60 ELSE 30
       IN slot.start_time + defaultBlockDuration * 60 * 1000

\* Mutant: the loop runs while currentTime <= slotEnd.
RECURSIVE walkSlots_inclusiveEnd(_, _, _, _)
walkSlots_inclusiveEnd(currentTime, slotEnd, duration, url) ==
  IF currentTime <= slotEnd
  THEN << [time |-> toLocaleTimeString(currentTime),
           timestamp |-> currentTime,
           scheduling_url |-> url] >>
       \o walkSlots_inclusiveEnd(currentTime + duration * 60 * 1000, slotEnd,
                                 duration, url)
  ELSE << >>

\* The while loop: one slot per step while currentTime < slotEnd.
RECURSIVE walkSlots(_, _, _, _)
walkSlots(currentTime, slotEnd, duration, url) ==
  IF currentTime < slotEnd
  THEN << [time |-> toLocaleTimeString(currentTime),
           timestamp |-> currentTime,
           scheduling_url |-> url] >>
       \o walkSlots(currentTime + duration * 60 * 1000, slotEnd, duration, url)
  ELSE << >>

\* The forEach over the filtered intervals, pushing in order.
RECURSIVE expandSlots(_, _)
expandSlots(periodSlots, duration) ==
  IF periodSlots = << >>
  THEN << >>
  ELSE LET slot == Head(periodSlots)
       IN walkSlots(slot.start_time, slotEndOf(slot, duration), duration,
                    slot.scheduling_url)
          \o expandSlots(Tail(periodSlots), duration)

\* Array.prototype.sort with the timestamp comparator, a stable sort: a
\* slot comes after the slots with an earlier timestamp and after those
\* with its own timestamp that were pushed before it.
sortedPosition(slots, i) ==
  Cardinality({ j \in DOMAIN slots :
                  \/ slots[j].timestamp < slots[i].timestamp
                  \/ /\ slots[j].timestamp = slots[i].timestamp
                     /\ j < i }) + 1

\* Mutant: the slots are returned in the order they were pushed.
sortSlots_unsorted(slots) == slots

sortSlots(slots) ==
  [k \in 1..Len(slots) |->
     slots[CHOOSE i \in DOMAIN slots : sortedPosition(slots, i) = k]]

processTimeSlotsForPeriod(data, p, duration) ==
  LET periodSlots == SelectSeq(data.collection, LAMBDA slot : inPeriod(slot, p))
  IN sortSlots(expandSlots(periodSlots, duration))

----------------------------------------------------------------------------
(* The date range resolver as a state machine *)

NoRange == [startTime |-> 0, endTime |-> 0]

\* No request is being served.
NoRequest == [route |-> "none"]
NoReply == [kind |-> "none"]
NoResponse == [status |-> 0]

\* The environment plays no part; no zone was asked for; no request is
\* under way.
NoConfig == [loaded |-> FALSE]
NoZone == ""
NoSessions == << >>

Init ==
  /\ tz \in Zones
  /\ now \in ClockReadings
  /\ pc = "idle"
  /\ weekOffset = 0
  /\ specificDate = NoDate
  /\ range = NoRange
  /\ availabilityData = [collection |-> << >>]
  /\ period = "morning"
  /\ eventDuration = 30
  /\ processedSlots = << >>
  /\ summary = << >>
  /\ loopIdx = 0
  /\ walkTime = 0
  /\ req = NoRequest
  /\ hpc = "idle"
  /\ calls = 0
  /\ reply = NoReply
  /\ resp = NoResponse
  /\ config = NoConfig
  /\ timeZone = NoZone
  /\ sessions = NoSessions

\* Time passes between two requests.
Tick ==
  /\ pc = "idle"
  /\ \E t \in ClockReadings : t > now /\ now' = t
  /\ UNCHANGED <<tz, pc, weekOffset, specificDate, range, slotVars,
                 summary, loopVars, handlerVars, envVars>>

\* getDateRange(weekOffset): week mode
CallGetDateRangeWeek ==
  /\ pc = "idle"
  /\ \E w \in WeekOffsets :
       /\ weekOffset' = w
       /\ specificDate' = NoDate
       /\ range' = getDateRange(now, w, NoDate)
  /\ pc' = "range"
  /\ UNCHANGED <<now, tz, slotVars, summary, loopVars, handlerVars, envVars>>

\* getDateRange(0, date): specific-date mode
CallGetDateRangeDate ==
  /\ pc = "idle"
  /\ \E d \in { DateString(now \div MsPerDay + k) :
                   k \in (-MaxDateShift)..MaxDateShift }
               \cup { InvalidDateString } :
       /\ weekOffset' = 0
       /\ specificDate' = d
       /\ range' = getDateRange(now, 0, d)
  /\ pc' = "range"
  /\ UNCHANGED <<now, tz, slotVars, summary, loopVars, handlerVars, envVars>>

\* The caller has consumed the range; the value does not outlive the request.
Return ==
  /\ pc = "range"
  /\ pc' = "idle"
  /\ weekOffset' = 0
  /\ specificDate' = NoDate
  /\ range' = NoRange
  /\ UNCHANGED <<now, tz, slotVars, summary, loopVars, handlerVars, envVars>>

Next == Tick \/ CallGetDateRangeWeek \/ CallGetDateRangeDate \/ Return

Spec == Init /\ [][Next]_vars

----------------------------------------------------------------------------
(* The calendar, as the properties speak of it *)

\* The host's wall clock at an instant, its calendar day (a day count from
\* the reference Monday), its time of day and its weekday (0 = Monday ...
\* 6 = Sunday).
WallClock(t) == t + tz * MsPerHour
CalendarDay(t) == WallClock(t) \div MsPerDay
TimeOfDay(t) == WallClock(t) % MsPerDay
Weekday(t) == CalendarDay(t) % 7

\* The instant at which the host's wall clock shows h:m:s.ms on a day.
At(day, h, m, s, ms) ==
  day * MsPerDay + h * MsPerHour + m * MsPerMinute + s * MsPerSecond + ms
    - tz * MsPerHour

DayStart(day) == At(day, 0, 0, 0, 0)
DayEnd(day) == At(day, 23, 59, 59, 999)

\* The Monday of the Monday-Sunday week containing an instant.
WeekMonday(t) == CalendarDay(t) - Weekday(t)

\* The first Monday 00:00 strictly after an instant.
NextMondayAfter(t) ==
  LET d == CHOOSE d \in CalendarDay(t)..(CalendarDay(t) + 7) :
             /\ d % 7 = 0
             /\ DayStart(d) > t
             /\ \A e \in CalendarDay(t)..(d - 1) :
                  ~(e % 7 = 0 /\ DayStart(e) > t)
  IN DayStart(d)

Min(a, b) == IF a <= b THEN a ELSE b
Max(a, b) == IF a >= b THEN a ELSE b

\* A week-mode call / a specific-date call has returned.
WeekMode == pc = "range" /\ specificDate = NoDate
DateMode == pc = "range" /\ specificDate.kind = "ymd"

\* The requested date, as new Date() resolves the string, falls on the
\* host's current calendar day.
RequestedToday ==
  CalendarDay(specificDate.day * MsPerDay) = CalendarDay(now)

\* 'now' is on a Saturday or Sunday and fewer than 12 hours remain until
\* the end of the current week.
NearWeekEnd ==
  /\ Weekday(now) \in {5, 6}
  /\ DayEnd(WeekMonday(now) + 6) - now < 12 * MsPerHour

----------------------------------------------------------------------------
(* Properties of the date range resolver *)

\* C1: in week mode (no specific date), for every clock reading and every
\* weekOffset, the returned range satisfies startTime <= endTime.
C1_WeekRangeOrdered ==
  WeekMode => range.startTime <= range.endTime

\* C1 witness: a Sunday after 21:00, where now + 3 hours lies past the week
\* end and the range returned is still a proper interval.
C1_Witness ==
  /\ WeekMode
  /\ weekOffset = 0
  /\ Weekday(now) = 6
  /\ TimeOfDay(now) > 21 * MsPerHour
  /\ range.startTime < range.endTime

C4_CurrentWeekLead ==
  (WeekMode /\ weekOffset = 0 /\ ~NearWeekEnd) =>
    /\ range.endTime = DayEnd(WeekMonday(now) + 6)
    /\ range.startTime >= now + 3 * MsPerHour
    /\ range.startTime >= DayStart(WeekMonday(now))

\* C4 witness: a current-week request on a Saturday, answered without
\* rollover, whose range starts three hours after the clock reading.
C4_Witness ==
  /\ WeekMode
  /\ weekOffset = 0
  /\ ~NearWeekEnd
  /\ Weekday(now) = 5
  /\ range.startTime = now + 3 * MsPerHour

\* C5: with weekOffset = 0, whenever 'now' is on a Saturday or Sunday and
\* fewer than 12 hours remain until the end of the current week, the range
\* is exactly next Monday 00:00:00.000 through the following Sunday
\* 23:59:59.999.
C5_WeekendRollover ==
  (WeekMode /\ weekOffset = 0 /\ NearWeekEnd) =>
    /\ range.startTime = DayStart(WeekMonday(now) + 7)
    /\ range.endTime = DayEnd(WeekMonday(now) + 13)

\* C5 witness: a current-week request on a Sunday afternoon was answered
\* with a range that starts after the current week has ended.
C5_Witness ==
  /\ WeekMode
  /\ weekOffset = 0
  /\ NearWeekEnd
  /\ range.startTime > DayEnd(WeekMonday(now) + 6)

\* 'now' is a Saturday at 10:00.
SaturdayAtTen == Weekday(now) = 5 /\ TimeOfDay(now) = 10 * MsPerHour

\* C6 as stated: for now = Saturday 10:00 and weekOffset = 0 the range is
\* next week's Monday 00:00 through next week's Sunday 23:59:59.999.
C6_Original ==
  (WeekMode /\ weekOffset = 0 /\ SaturdayAtTen) =>
    /\ range.startTime = DayStart(WeekMonday(now) + 7)
    /\ range.endTime = DayEnd(WeekMonday(now) + 13)

\* C6 amended: for now = Saturday 10:00 and weekOffset = 0 almost 38 hours
\* remain until the week end, so there is no rollover: the range is
\* Saturday 13:00 (now + 3 hours) through the current week's Sunday
\* 23:59:59.999.
C6_Amended ==
  (WeekMode /\ weekOffset = 0 /\ SaturdayAtTen) =>
    /\ range.startTime = At(CalendarDay(now), 13, 0, 0, 0)
    /\ range.endTime = DayEnd(WeekMonday(now) + 6)

\* C6 witness: a current-week request at Saturday 10:00 whose range ends
\* before next Monday.
C6_Witness ==
  /\ WeekMode
  /\ weekOffset = 0
  /\ SaturdayAtTen
  /\ range.endTime < DayStart(WeekMonday(now) + 7)

\* C7: for every 'now' and every weekOffset N >= 1 the range is the full
\* Monday-Sunday week N weeks after the week containing 'now': startTime is
\* Monday 00:00 of the current week plus 7 * N days, which is the first
\* Monday strictly after 'now' advanced by N - 1 weeks, and endTime is
\* startTime + 6 days at 23:59:59.999.
C7_FutureWeek ==
  (WeekMode /\ weekOffset >= 1) =>
    /\ range.startTime = DayStart(WeekMonday(now) + 7 * weekOffset)
    /\ range.startTime = NextMondayAfter(now) + (weekOffset - 1) * MsPerWeek
    /\ range.endTime = DayEnd(CalendarDay(range.startTime) + 6)

\* C7 witness: a request two weeks ahead made on a Sunday, the weekday for
\* which getNextMonday has its own case.
C7_Witness ==
  /\ WeekMode
  /\ weekOffset = 2
  /\ Weekday(now) = 6
  /\ range.startTime = NextMondayAfter(now) + MsPerWeek

\* C8 as stated: in specific-date mode, when the requested date is not the
\* current day, startTime is 00:00:00.000 and endTime 23:59:59.999 of the
\* requested calendar day (the day the date string names, in the zone whose
\* wall clock the resolver uses), and of no other day.
C8_Original ==
  (DateMode /\ ~RequestedToday) =>
    /\ range.startTime = DayStart(specificDate.day)
    /\ range.endTime = DayEnd(specificDate.day)

\* C19 as stated: getDateRange never raises and, for every weekOffset and
\* every specificDate value, a date string that does not parse included,
\* returns a range whose startTime and endTime are well-defined instants
\* with startTime <= endTime.
C19_Original ==
  pc = "range" =>
    /\ range.startTime # NaN
    /\ range.endTime # NaN
    /\ range.startTime <= range.endTime

\* The range returned starts on the Monday after the week of 'now'.
RolledForward == range.startTime = DayStart(WeekMonday(now) + 7)

\* 'now' is a Sunday at or after 12:00:00.000.
SundayFromNoon == Weekday(now) = 6 /\ TimeOfDay(now) >= 12 * MsPerHour

\* C24: with weekOffset = 0 the roll-forward to next week is taken exactly
\* when 'now' is a Sunday at or after 12:00:00.000; it is never taken on a
\* Saturday nor on Monday to Friday, so on every Saturday the range still
\* ends on the current week's Sunday.
C24_RolloverOnlySundayNoon ==
  (WeekMode /\ weekOffset = 0) =>
    /\ RolledForward <=> SundayFromNoon
    /\ Weekday(now) \in 0..5 => ~RolledForward
    /\ Weekday(now) = 5 => range.endTime = DayEnd(WeekMonday(now) + 6)

\* C24 witness: a current-week request at Sunday 12:00:00.000 exactly was
\* answered with next week.
C24_Witness ==
  /\ WeekMode
  /\ weekOffset = 0
  /\ Weekday(now) = 6
  /\ TimeOfDay(now) = 12 * MsPerHour
  /\ RolledForward

\* C25: with weekOffset = 0 and no rollover, startTime equals now + 3
\* hours exactly and is strictly earlier than endTime; the final clamp,
\* which pulls a start later than the week end back to the week end, is
\* taken for no 'now'.
C25_LeadExactClampDead ==
  (WeekMode /\ weekOffset = 0) =>
    /\ ~RolledForward =>
         /\ range.startTime = now + 3 * MsPerHour
         /\ range.startTime < range.endTime
         /\ ~startPastWeekEnd(now)
    /\ startPastWeekEnd(now) => RolledForward

\* C25 witness: a current-week request in the last millisecond of Sunday
\* morning, the latest reading without rollover: the range starts three
\* hours later, before the week end.
C25_Witness ==
  /\ WeekMode
  /\ weekOffset = 0
  /\ Weekday(now) = 6
  /\ TimeOfDay(now) = 12 * MsPerHour - 1
  /\ range.startTime = now + 3 * MsPerHour
  /\ range.startTime < range.endTime

\* C26: week-mode ranges tile the timeline: for every 'now' and every
\* N >= 1 the range for offset N + 1 starts exactly 1 ms after the range
\* for offset N ends; when offset 0 does not roll over, the range for
\* offset 1 starts exactly 1 ms after the offset-0 range ends, and when
\* offset 0 rolls over its range is the range for offset 1.
C26_WeeksTile ==
  WeekMode =>
    /\ weekOffset >= 1 =>
         getDateRange(now, weekOffset + 1, NoDate).startTime
           = range.endTime + 1
    /\ (weekOffset = 0 /\ ~RolledForward) =>
         getDateRange(now, 1, NoDate).startTime = range.endTime + 1
    /\ (weekOffset = 0 /\ RolledForward) =>
         range = getDateRange(now, 1, NoDate)

\* C26 witness: a current-week request that rolled over returned the very
\* range of offset 1, and the range of offset 2 starts 1 ms after its end.
C26_Witness ==
  /\ WeekMode
  /\ weekOffset = 0
  /\ RolledForward
  /\ range = getDateRange(now, 1, NoDate)
  /\ getDateRange(now, 2, NoDate).startTime = range.endTime + 1

\* C27: for every negative weekOffset getDateRange returns the range it
\* returns for weekOffset = 1, and no week-mode request returns a range
\* that starts before the Monday 00:00 of the week of 'now': a past week
\* is never queried.
C27_NoPastWeek ==
  WeekMode =>
    /\ weekOffset < 0 =>
         /\ range = getDateRange(now, 1, NoDate)
         /\ range.startTime = DayStart(WeekMonday(now) + 7)
         /\ range.endTime = DayEnd(WeekMonday(now) + 13)
    /\ range.startTime >= DayStart(WeekMonday(now))

\* C27 witness: a request with weekOffset = -1 was answered with the week
\* that follows the week of 'now'.
C27_Witness ==
  /\ WeekMode
  /\ weekOffset = -1
  /\ range.startTime > now
  /\ range.startTime = DayStart(WeekMonday(now) + 7)

----------------------------------------------------------------------------
(* The slot enumerator as a state machine *)

\* Interval starts (UTC minutes of the reference day): inside each period,
\* half an hour before each period's end, and outside both periods.
StartMinutes == {9 * 60, 11 * 60 + 30, 16 * 60 + 30, 18 * 60}

\* Interval lengths in minutes, for the intervals that carry an end_time.
LengthMinutes == {0, 20, 60}

Urls == {"url1", "url2"}

\* The provider's intervals: {start_time, scheduling_url} and optionally
\* end_time.  The times are the instants new Date() parses from the
\* provider's ISO-8601 strings, on whole minutes.
Intervals ==
  { [start_time |-> s * MsPerMinute, scheduling_url |-> u] :
      s \in StartMinutes, u \in Urls }
  \cup
  { [start_time |-> s * MsPerMinute, end_time |-> (s + l) * MsPerMinute,
     scheduling_url |-> u] :
      s \in StartMinutes, l \in LengthMinutes, u \in Urls }

Collections ==
  UNION { [1..n -> Intervals] : n \in 0..MaxIntervals }

Periods == {"morning", "afternoon", "evening"}

EventDurations == {15, 30, 45, 60}

SlotInit ==
  /\ tz = 0
  /\ now = 0
  /\ pc = "idle"
  /\ weekOffset = 0
  /\ specificDate = NoDate
  /\ range = NoRange
  /\ availabilityData \in { [collection |-> c] : c \in Collections }
  /\ period \in Periods
  /\ eventDuration \in EventDurations
  /\ processedSlots = << >>
  /\ summary = << >>
  /\ loopIdx = 0
  /\ walkTime = 0
  /\ req = NoRequest
  /\ hpc = "idle"
  /\ calls = 0
  /\ reply = NoReply
  /\ resp = NoResponse
  /\ config = NoConfig
  /\ timeZone = NoZone
  /\ sessions = NoSessions

\* processTimeSlotsForPeriod(availabilityData, period, eventDuration)
CallProcessTimeSlots ==
  /\ pc = "idle"
  /\ processedSlots' =
       processTimeSlotsForPeriod(availabilityData, period, eventDuration)
  /\ pc' = "slots"
  /\ UNCHANGED <<rangeVars, availabilityData, period, eventDuration,
                 summary, loopVars, handlerVars, envVars>>

SlotNext == CallProcessTimeSlots

SlotSpec == SlotInit /\ [][SlotNext]_vars

----------------------------------------------------------------------------
(* Properties of the slot enumerator *)

Step == eventDuration * MsPerMinute

\* The interval starts in the requested period, by the hour of its start.
StartsInPeriod(iv) ==
  LET h == (iv.start_time \div MsPerHour) % 24
  IN IF period = "morning" THEN h \in 5..11 ELSE h \in 12..16

\* The effective end of an interval.
EffectiveEnd(iv) ==
  IF "end_time" \in DOMAIN iv
  THEN iv.end_time
  ELSE iv.start_time + (IF eventDuration = 60 THEN 60 ELSE 30) * MsPerMinute

\* start + k * slotDuration, k = 0, 1, 2, ..., strictly before the
\* effective end.
ExpectedTimestamps(iv) ==
  LET n == IF EffectiveEnd(iv) > iv.start_time
           THEN (EffectiveEnd(iv) - iv.start_time) \div Step
           ELSE 0
  IN { iv.start_time + k * Step :
         k \in { j \in 0..n : iv.start_time + j * Step < EffectiveEnd(iv) } }

\* The intervals of the reply that the requested period selects.
Selected ==
  { i \in DOMAIN availabilityData.collection :
      StartsInPeriod(availabilityData.collection[i]) }

\* The enumerator has returned for one of the two named periods.
Enumerated == pc = "slots" /\ period \in {"morning", "afternoon"}

\* C9: for every interval of the requested period the enumerator emits
\* exactly the slots with timestamps start + k * slotDuration that are
\* strictly before the interval's effective end, each with the interval's
\* scheduling_url (so none lies outside [start, effective end)); an
\* interval 09:00-10:00 with slot duration 30 yields 09:00 and 09:30 only.
C9_ExactSlots ==
  Enumerated =>
    LET c == availabilityData.collection
        stamps == { processedSlots[j].timestamp : j \in DOMAIN processedSlots }
                  \cup UNION { ExpectedTimestamps(c[i]) : i \in DOMAIN c }
    IN /\ \A ts \in stamps : \A u \in { c[i].scheduling_url : i \in DOMAIN c } :
            Cardinality({ j \in DOMAIN processedSlots :
                            /\ processedSlots[j].timestamp = ts
                            /\ processedSlots[j].scheduling_url = u })
            = Cardinality({ i \in Selected :
                              /\ c[i].scheduling_url = u
                              /\ ts \in ExpectedTimestamps(c[i]) })
       /\ \A j \in DOMAIN processedSlots :
            processedSlots[j].scheduling_url
              \in { c[i].scheduling_url : i \in Selected }
       /\ ( /\ Len(c) = 1
            /\ c[1].start_time = 9 * MsPerHour
            /\ "end_time" \in DOMAIN c[1]
            /\ c[1].end_time = 10 * MsPerHour
            /\ period = "morning"
            /\ eventDuration = 30 )
          => ( /\ Len(processedSlots) = 2
               /\ processedSlots[1].timestamp = 9 * MsPerHour
               /\ processedSlots[2].timestamp = 9 * MsPerHour + 30 * MsPerMinute )

\* C9 witness: the interval 09:00-10:00 was enumerated in steps of 30
\* minutes and two slots came back.
C9_Witness ==
  /\ Enumerated
  /\ Len(availabilityData.collection) = 1
  /\ availabilityData.collection[1].start_time = 9 * MsPerHour
  /\ "end_time" \in DOMAIN availabilityData.collection[1]
  /\ availabilityData.collection[1].end_time = 10 * MsPerHour
  /\ period = "morning"
  /\ eventDuration = 30
  /\ Len(processedSlots) = 2

\* C10 as stated: no slot is emitted for an interval whose length
\* (effective end minus start) is smaller than one slot duration, and no
\* emitted slot extends past the end of its source interval.
C10_Original ==
  Enumerated =>
    LET c == availabilityData.collection
    IN /\ (\A i \in Selected : EffectiveEnd(c[i]) - c[i].start_time < Step)
            => processedSlots = << >>
       /\ \A j \in DOMAIN processedSlots :
            \E i \in Selected :
              /\ c[i].scheduling_url = processedSlots[j].scheduling_url
              /\ processedSlots[j].timestamp \in ExpectedTimestamps(c[i])
              /\ processedSlots[j].timestamp + Step <= EffectiveEnd(c[i])

\* C11: the list returned by processTimeSlotsForPeriod is ordered
\* non-decreasing by timestamp across all source intervals, whatever the
\* order in which the provider lists the intervals and also when intervals
\* overlap.
C11_SortedByTimestamp ==
  pc = "slots" =>
    \A j \in 1..(Len(processedSlots) - 1) :
      processedSlots[j].timestamp <= processedSlots[j + 1].timestamp

\* C11 witness: the provider listed a later interval before an earlier one
\* of the same period, and the slots came back in ascending order.
C11_Witness ==
  /\ Enumerated
  /\ Len(availabilityData.collection) = 2
  /\ Selected = {1, 2}
  /\ availabilityData.collection[1].start_time
       > availabilityData.collection[2].start_time
  /\ Len(processedSlots) >= 2
  /\ processedSlots[1].timestamp
       = availabilityData.collection[2].start_time
  /\ processedSlots[1].timestamp < processedSlots[Len(processedSlots)].timestamp

\* The number of slots the intervals i..Len of the reply contribute when
\* only the intervals of the requested period are walked.
RECURSIVE SelectedSlotCount(_)
SelectedSlotCount(i) ==
  IF i > Len(availabilityData.collection)
  THEN 0
  ELSE (IF i \in Selected
        THEN Cardinality(ExpectedTimestamps(availabilityData.collection[i]))
        ELSE 0)
       + SelectedSlotCount(i + 1)

\* C14: only intervals whose start hour lies in the requested period's
\* range ([5,12) for morning, [12,17) for afternoon) are expanded: every
\* slot of the result comes from such an interval, and an interval whose
\* start hour is outside the requested period adds no slot to the result.
C14_OnlyRequestedPeriod ==
  Enumerated =>
    LET c == availabilityData.collection
    IN /\ \A j \in DOMAIN processedSlots :
            \E i \in Selected :
              /\ c[i].scheduling_url = processedSlots[j].scheduling_url
              /\ processedSlots[j].timestamp \in ExpectedTimestamps(c[i])
       /\ Len(processedSlots) = SelectedSlotCount(1)
       /\ Selected = {} => processedSlots = << >>

\* C14 witness: the reply held a non-empty interval of the requested period
\* and a non-empty one outside it, and only the first one's slots came back.
C14_Witness ==
  /\ Enumerated
  /\ Len(availabilityData.collection) = 2
  /\ Selected = {1}
  /\ ExpectedTimestamps(availabilityData.collection[2]) # {}
  /\ Len(processedSlots)
       = Cardinality(ExpectedTimestamps(availabilityData.collection[1]))
  /\ processedSlots # << >>

\* The default block, in minutes, of an interval without end_time.
DefaultBlock == IF eventDuration = 60 THEN 60 ELSE 30

\* C15: the effective end of an interval is its own end_time when present;
\* otherwise it is start + 60 minutes when the event duration equals 60 and
\* start + 30 minutes for every other duration, whatever the step with
\* which the interval is walked.  A reply of one interval without end_time
\* therefore yields one slot per step that begins inside that block.
C15_EffectiveEnd ==
  pc = "slots" =>
    LET c == availabilityData.collection
    IN /\ \A i \in DOMAIN c :
            slotEndOf(c[i], eventDuration)
              = IF "end_time" \in DOMAIN c[i]
                THEN c[i].end_time
                ELSE c[i].start_time + DefaultBlock * MsPerMinute
       /\ (Enumerated /\ Len(c) = 1 /\ Selected = {1}
             /\ "end_time" \notin DOMAIN c[1])
          => /\ Len(processedSlots)
                  = Cardinality({ k \in 0..3 : k * eventDuration < DefaultBlock })
             /\ \A j \in DOMAIN processedSlots :
                  processedSlots[j].timestamp
                    < c[1].start_time + DefaultBlock * MsPerMinute

\* C15 witness: an interval without end_time walked in steps of 15 minutes
\* gave the two slots of its 30-minute block.
C15_Witness ==
  /\ Enumerated
  /\ Len(availabilityData.collection) = 1
  /\ Selected = {1}
  /\ "end_time" \notin DOMAIN availabilityData.collection[1]
  /\ eventDuration = 15
  /\ Len(processedSlots) = 2

-----------------------------------------------------------------------------
(* The week summarizer *)

\* date.toLocaleDateString('en-US', {weekday: 'long'}), by getDay's index.
DayNames ==
  <<"Sunday", "Monday", "Tuesday", "Wednesday", "Thursday", "Friday",
    "Saturday">>

toLocaleWeekday(t) == DayNames[getDay(t) + 1]

\* date.toISOString().split('T')[0]: the UTC calendar date, as a day number.
toISODate(t) == t \div MsPerDay

\* The forEach callback with noon counted as a morning hour.
summarizeSlot_noonIsMorning(acc, slot) ==
  LET dayName == toLocaleWeekday(slot.start_time)
      hour == getUTCHours(slot.start_time)
      entry == IF dayName \in DOMAIN acc
               THEN acc[dayName]
               ELSE [morning |-> "NO", afternoon |-> "NO",
                     date |-> toISODate(slot.start_time)]
      marked == IF hour >= 5 /\ hour <= 12
                THEN [entry EXCEPT !.morning = "YES"]
                ELSE IF hour > 12 /\ hour < 17
                     THEN [entry EXCEPT !.afternoon = "YES"]
                     ELSE entry
  IN [n \in DOMAIN acc \cup {dayName} |->
        IF n = dayName THEN marked ELSE acc[n]]

\* The forEach callback: create the day's entry when the day name is new,
\* then raise the flag of the period the UTC start hour falls in.
summarizeSlot(acc, slot) ==
  LET dayName == toLocaleWeekday(slot.start_time)
      hour == getUTCHours(slot.start_time)
      entry == IF dayName \in DOMAIN acc
               THEN acc[dayName]
               ELSE [morning |-> "NO", afternoon |-> "NO",
                     date |-> toISODate(slot.start_time)]
      marked == IF hour >= 5 /\ hour < 12
                THEN [entry EXCEPT !.morning = "YES"]
                ELSE IF hour >= 12 /\ hour < 17
                     THEN [entry EXCEPT !.afternoon = "YES"]
                     ELSE entry
  IN [n \in DOMAIN acc \cup {dayName} |->
        IF n = dayName THEN marked ELSE acc[n]]

RECURSIVE summarizeFrom(_, _, _)
summarizeFrom(c, i, acc) ==
  IF i > Len(c)
  THEN acc
  ELSE summarizeFrom(c, i + 1, summarizeSlot(acc, c[i]))

processAvailabilityToSummary(data) ==
  summarizeFrom(data.collection, 1, << >>)

\* Interval starts of one queried week: Monday to Wednesday, at UTC hours
\* before, inside and after the two periods and next to UTC midnight.
SummaryDays == {0, 1, 2}

SummaryHours == {2, 9, 13, 18, 23}

SummaryIntervals ==
  { [start_time |-> d * MsPerDay + h * MsPerHour, scheduling_url |-> "url1"] :
      d \in SummaryDays, h \in SummaryHours }

SummaryCollections ==
  UNION { [1..n -> SummaryIntervals] : n \in 0..MaxIntervals }

SummaryInit ==
  /\ tz \in Zones
  /\ now = 0
  /\ pc = "idle"
  /\ weekOffset = 0
  /\ specificDate = NoDate
  /\ range = NoRange
  /\ availabilityData \in { [collection |-> c] : c \in SummaryCollections }
  /\ period = "morning"
  /\ eventDuration = 30
  /\ processedSlots = << >>
  /\ summary = << >>
  /\ loopIdx = 0
  /\ walkTime = 0
  /\ req = NoRequest
  /\ hpc = "idle"
  /\ calls = 0
  /\ reply = NoReply
  /\ resp = NoResponse
  /\ config = NoConfig
  /\ timeZone = NoZone
  /\ sessions = NoSessions

\* processAvailabilityToSummary(availabilityData)
CallProcessSummary ==
  /\ pc = "idle"
  /\ summary' = processAvailabilityToSummary(availabilityData)
  /\ pc' = "summary"
  /\ UNCHANGED <<rangeVars, slotVars, loopVars, handlerVars, envVars>>

SummaryNext == CallProcessSummary

SummarySpec == SummaryInit /\ [][SummaryNext]_vars

-----------------------------------------------------------------------------
(* Properties of the week summarizer *)

Summarized == pc = "summary"

\* The same intervals in every listing order.
Reorderings(c) ==
  LET n == Len(c)
      perms == { p \in [1..n -> 1..n] : \A i, j \in 1..n : p[i] = p[j] => i = j }
  IN { [i \in 1..n |-> c[p[i]]] : p \in perms }

\* The intervals the summarizer put into the entry of the day named n.
IntervalsOfEntry(n) ==
  { i \in DOMAIN availabilityData.collection :
      toLocaleWeekday(availabilityData.collection[i].start_time) = n }

StartHour(i) ==
  (availabilityData.collection[i].start_time \div MsPerHour) % 24

\* C12 as stated: a day's morning flag is YES exactly when one of the day's
\* intervals starts at an hour in [5,12), its afternoon flag exactly when
\* one starts at an hour in [12,17), and the summary is the same for every
\* ordering of the same intervals.
C12_Original ==
  Summarized =>
    /\ \A n \in DOMAIN summary :
         /\ summary[n].morning = "YES"
              <=> \E i \in IntervalsOfEntry(n) :
                    StartHour(i) >= 5 /\ StartHour(i) < 12
         /\ summary[n].afternoon = "YES"
              <=> \E i \in IntervalsOfEntry(n) :
                    StartHour(i) >= 12 /\ StartHour(i) < 17
    /\ \A c \in Reorderings(availabilityData.collection) :
         processAvailabilityToSummary([collection |-> c]) = summary

\* The calendar day an interval starts on: in the host's zone, or in UTC.
StartDay(i, hostZone) ==
  IF hostZone
  THEN toDateString(availabilityData.collection[i].start_time)
  ELSE availabilityData.collection[i].start_time \div MsPerDay

\* One entry per calendar day with an interval, carrying that day's date,
\* and no entry shared by intervals of two calendar dates.
OneEntryPerDay(hostZone) ==
  LET idx == DOMAIN availabilityData.collection
      days == { StartDay(i, hostZone) : i \in idx }
  IN /\ Cardinality(DOMAIN summary) = Cardinality(days)
     /\ { summary[n].date : n \in DOMAIN summary } = days
     /\ \A n \in DOMAIN summary :
          \A i \in IntervalsOfEntry(n) :
            StartDay(i, hostZone) = summary[n].date

\* C13 as stated: the summary holds exactly one entry for each distinct
\* calendar day on which an interval starts, carrying that day's date, none
\* for a day without intervals, and two intervals on different calendar
\* dates never share an entry; with the calendar day read in one zone,
\* the host's or UTC.
C13_Original ==
  Summarized => \E hostZone \in BOOLEAN : OneEntryPerDay(hostZone)

-----------------------------------------------------------------------------
(* The slot enumerator step by step *)

\* The enumerator's loops as single steps: pc is "forEach" between two
\* intervals of periodSlots and "while" inside the walk of one interval;
\* loopIdx is the forEach index, walkTime the loop variable currentTime and
\* processedSlots the list the pushes build.

\* Interval starts in each period and outside both; one interval without
\* end_time, one empty and one of an hour.
LoopStartMinutes == {9 * 60, 16 * 60 + 30, 18 * 60}

LoopLengthMinutes == {0, 60}

LoopIntervals ==
  { [start_time |-> s * MsPerMinute, scheduling_url |-> "url1"] :
      s \in LoopStartMinutes }
  \cup
  { [start_time |-> s * MsPerMinute, end_time |-> (s + l) * MsPerMinute,
     scheduling_url |-> "url1"] :
      s \in LoopStartMinutes, l \in LoopLengthMinutes }

LoopCollections ==
  UNION { [1..n -> LoopIntervals] : n \in 0..MaxIntervals }

\* The durations a caller can pass, the one of no length included.
LoopDurations == {0, 15, 30, 60}

\* The slots the heap has room for.  A walk in steps of 15 minutes or more
\* pushes at most four slots per interval and stays below the cap; a run
\* that fills the heap dies on its next push.
LoopCap == MaxIntervals * 4 + 1

periodSlotsOf(data, p) ==
  SelectSeq(data.collection, LAMBDA slot : inPeriod(slot, p))

LoopInit ==
  /\ tz = 0
  /\ now = 0
  /\ pc = "idle"
  /\ weekOffset = 0
  /\ specificDate = NoDate
  /\ range = NoRange
  /\ availabilityData \in { [collection |-> c] : c \in LoopCollections }
  /\ period \in {"morning", "afternoon"}
  /\ eventDuration \in LoopDurations
  /\ processedSlots = << >>
  /\ summary = << >>
  /\ loopIdx = 0
  /\ walkTime = 0
  /\ req = NoRequest
  /\ hpc = "idle"
  /\ calls = 0
  /\ reply = NoReply
  /\ resp = NoResponse
  /\ config = NoConfig
  /\ timeZone = NoZone
  /\ sessions = NoSessions

\* The call: the filter, and let processedSlots = [].
LoopEnter ==
  /\ pc = "idle"
  /\ processedSlots' = << >>
  /\ loopIdx' = 1
  /\ pc' = "forEach"
  /\ UNCHANGED <<rangeVars, availabilityData, period, eventDuration, summary,
                 walkTime, handlerVars, envVars>>

\* The forEach callback begins: let currentTime = new Date(slotStart).
LoopNextSlot ==
  /\ pc = "forEach"
  /\ loopIdx <= Len(periodSlotsOf(availabilityData, period))
  /\ walkTime' = periodSlotsOf(availabilityData, period)[loopIdx].start_time
  /\ pc' = "while"
  /\ UNCHANGED <<rangeVars, slotVars, summary, loopIdx, handlerVars, envVars>>

\* One pass through the while body: push, then advance currentTime.
LoopPush ==
  /\ pc = "while"
  /\ LET slot == periodSlotsOf(availabilityData, period)[loopIdx]
     IN /\ walkTime < slotEndOf(slot, eventDuration)
        /\ Len(processedSlots) < LoopCap
        /\ processedSlots' =
             Append(processedSlots,
                    [time |-> toLocaleTimeString(walkTime),
                     timestamp |-> walkTime,
                     scheduling_url |-> slot.scheduling_url])
        /\ walkTime' = walkTime + eventDuration * 60 * 1000
  /\ UNCHANGED <<rangeVars, availabilityData, period, eventDuration, summary,
                 loopIdx, pc, handlerVars, envVars>>

\* A push with the heap full: the process dies, the call never returns.
LoopOutOfMemory ==
  /\ pc = "while"
  /\ walkTime
       < slotEndOf(periodSlotsOf(availabilityData, period)[loopIdx],
                   eventDuration)
  /\ Len(processedSlots) = LoopCap
  /\ pc' = "crashed"
  /\ UNCHANGED <<rangeVars, slotVars, summary, loopVars, handlerVars, envVars>>

\* The while condition is false: the callback ends.
LoopExitWhile ==
  /\ pc = "while"
  /\ ~ (walkTime
          < slotEndOf(periodSlotsOf(availabilityData, period)[loopIdx],
                      eventDuration))
  /\ loopIdx' = loopIdx + 1
  /\ pc' = "forEach"
  /\ UNCHANGED <<rangeVars, slotVars, summary, walkTime, handlerVars, envVars>>

\* After the last interval: sort and return.
LoopReturn ==
  /\ pc = "forEach"
  /\ loopIdx > Len(periodSlotsOf(availabilityData, period))
  /\ processedSlots' = sortSlots(processedSlots)
  /\ pc' = "slots"
  /\ UNCHANGED <<rangeVars, availabilityData, period, eventDuration, summary,
                 loopVars, handlerVars, envVars>>

LoopNext ==
  \/ LoopEnter
  \/ LoopNextSlot
  \/ LoopPush
  \/ LoopOutOfMemory
  \/ LoopExitWhile
  \/ LoopReturn

\* The function is synchronous: once called it keeps executing.
LoopSpec == LoopInit /\ [][LoopNext]_vars /\ WF_vars(LoopNext)

\* The stepwise run returns what the function computes in one piece.
LoopReturnsFunctionValue ==
  (pc = "slots" /\ eventDuration > 0) =>
    processedSlots
      = processTimeSlotsForPeriod(availabilityData, period, eventDuration)

\* Walks in steps of positive length stay below the cap.
LoopBelowCap == eventDuration > 0 => Len(processedSlots) < LoopCap

\* Calls with a positive duration return.
LoopPositiveTerminates == eventDuration > 0 => <>(pc = "slots")

\* C20 as stated: processTimeSlotsForPeriod is total; for every finite
\* interval list, every period and every slot duration the call terminates
\* and returns a slot list without raising.
C20_Original == <>(pc = "slots")

-----------------------------------------------------------------------------
(* The request handlers *)

\* The four handlers that answer a scheduling request: the REST routes
\* GET /availability/summary and GET /availability/times and the voice
\* agent's functions checkAvailability and checkTimes.  A handler runs up
\* to its await of the provider call in one step (hpc "awaiting") and
\* finishes when the provider has answered or failed (hpc "done").

\* A parameter the request does not carry.
Undefined == "undefined"

Routes == {"restSummary", "restTimes", "checkAvailability", "checkTimes"}

SummaryRoutes == {"restSummary", "checkAvailability"}

\* Event identifiers: absent, a string that is no event type URI, and one.
EventTypeUrls ==
  {Undefined, "not-a-uri", "https://api.calendly.com/event_types/E1"}

RequestPeriods == {Undefined, "morning", "afternoon", "evening"}

\* The date parameter: absent, unparsable, or the UTC date of the clock.
RequestDates == {NoDate, InvalidDateString, DateString(now \div MsPerDay)}

Requests ==
  { [route |-> r, eventTypeUrl |-> u, weekOffset |-> w] :
      r \in SummaryRoutes, u \in EventTypeUrls, w \in {0, 1} }
  \cup
  { [route |-> r, eventTypeUrl |-> u, date |-> d, period |-> p] :
      r \in Routes \ SummaryRoutes, u \in EventTypeUrls, d \in RequestDates,
      p \in RequestPeriods }

\* const { period = 'morning' } = ...
periodOf(r) == IF r.period = Undefined THEN "morning" ELSE r.period

\* The eventDuration default of processTimeSlotsForPeriod.
DefaultEventDuration == 30

\* The first failing validation of the handler, "" when it has none.
\* handleCheckAvailability validates nothing.
validationError(r) ==
  CASE r.route = "restSummary" ->
         IF r.eventTypeUrl = Undefined
         THEN "Missing required parameter: eventTypeUrl"
         ELSE ""
    [] r.route = "checkAvailability" -> ""
    [] r.route = "checkTimes" ->
         IF r.date = NoDate
         THEN "Missing required parameter: date"
         ELSE IF r.eventTypeUrl = Undefined
              THEN "Missing required parameter: eventTypeUrl"
              ELSE ""
    [] r.route = "restTimes" ->
         IF r.date = NoDate
         THEN "Missing required parameter: date"
         ELSE IF r.eventTypeUrl = Undefined
              THEN "Missing required parameter: eventTypeUrl"
              ELSE IF ParseDate(r.date) = NaN
                   THEN "Invalid date format"
                   ELSE IF periodOf(r) # "morning" /\ periodOf(r) # "afternoon"
                        THEN "Invalid parameter: period"
                        ELSE ""

\* The error text of the handler's catch block.
catchError(route) ==
  CASE route = "restSummary" -> "Failed to fetch availability summary"
    [] route = "restTimes" -> "Failed to fetch availability times"
    [] route = "checkAvailability" -> "Failed to check availability"
    [] route = "checkTimes" -> "Failed to check times"

\* res.status(400).json({success: false, error})
badRequest(error) == [status |-> 400, success |-> FALSE, error |-> error]

\* Mutant: the catch block answers with an empty result.
failureResponse_emptyResult(error, message) ==
  [status |-> 200, success |-> TRUE, availability |-> << >>]

\* res.status(500).json({success: false, error, message: error.message})
failureResponse(error, message) ==
  [status |-> 500, success |-> FALSE, error |-> error, message |-> message]

\* The catch block of getAvailabilityData: whatever was caught, the error
\* thrown on is new Error('Failed to fetch availability').
fetchError(caught) == [message |-> "Failed to fetch availability"]

\* startTime.toISOString() throws a RangeError on an Invalid Date.
toISOStringThrows(r) == r.startTime = NaN \/ r.endTime = NaN

\* The range the handler asks getDateRange for.
rangeOf(r) ==
  IF r.route \in SummaryRoutes
  THEN getDateRange(now, r.weekOffset, NoDate)
  ELSE getDateRange(now, 0, r.date)

\* The provider's answers: intervals inside the queried range, on the next
\* full hour after its start and four hours later.
ReplyCollections ==
  LET a == ((range.startTime \div MsPerHour) + 1) * MsPerHour
      first == [start_time |-> a, scheduling_url |-> "url1"]
      second == [start_time |-> a + 4 * MsPerHour, scheduling_url |-> "url2"]
  IN { << >> }
     \cup (IF a < range.endTime THEN { << first >> } ELSE {})
     \cup (IF a + 4 * MsPerHour < range.endTime
           THEN { << first, second >>, << second, first >> }
           ELSE {})

\* The provider's failures: an error status with its message, and a request
\* that got no answer (status 0).
ProviderErrors ==
  { [kind |-> "error", status |-> 404, message |-> "Resource Not Found"],
    [kind |-> "error", status |-> 500, message |-> "Internal Server Error"],
    [kind |-> "error", status |-> 0, message |-> "ECONNREFUSED"] }

\* Clock readings of the week before the reference Monday: Monday, Friday
\* and Sunday, in the morning and after the workday, host-local.
HandlerReadings ==
  { d * MsPerDay + h * MsPerHour - tz * MsPerHour :
      d \in {-7, -3, -1}, h \in {10, 17} }

HandlerInit ==
  /\ tz \in Zones
  /\ now \in HandlerReadings
  /\ pc = "idle"
  /\ weekOffset = 0
  /\ specificDate = NoDate
  /\ range = NoRange
  /\ availabilityData = [collection |-> << >>]
  /\ period = "morning"
  /\ eventDuration = DefaultEventDuration
  /\ processedSlots = << >>
  /\ summary = << >>
  /\ loopIdx = 0
  /\ walkTime = 0
  /\ req = NoRequest
  /\ hpc = "idle"
  /\ calls = 0
  /\ reply = NoReply
  /\ resp = NoResponse
  /\ config = NoConfig
  /\ timeZone = NoZone
  /\ sessions = NoSessions

\* A handler from its entry to its first await: the validations, then
\* getDateRange, then getAvailabilityData up to calendlyApi.get.
Begin(r) ==
  /\ hpc = "idle"
  /\ req' = r
  /\ IF validationError(r) # ""
     THEN /\ resp' = badRequest(validationError(r))
          /\ hpc' = "done"
          /\ UNCHANGED <<range, calls>>
     ELSE /\ range' = rangeOf(r)
          /\ IF toISOStringThrows(rangeOf(r))
             THEN /\ resp' = failureResponse(catchError(r.route),
                                             fetchError("RangeError").message)
                  /\ hpc' = "done"
                  /\ UNCHANGED calls
             ELSE /\ calls' = calls + 1
                  /\ hpc' = "awaiting"
                  /\ UNCHANGED resp
  /\ UNCHANGED <<now, tz, weekOffset, specificDate, slotVars, summary,
                 loopVars, pc, reply, envVars>>

\* GET /api/calendly/availability/summary
GetAvailabilitySummary ==
  \E r \in Requests : r.route = "restSummary" /\ Begin(r)

\* GET /api/calendly/availability/times
GetAvailabilityTimes ==
  \E r \in Requests : r.route = "restTimes" /\ Begin(r)

\* function-handler: case 'checkAvailability'
handleCheckAvailability ==
  \E r \in Requests : r.route = "checkAvailability" /\ Begin(r)

\* function-handler: case 'checkTimes'
handleCheckTimes ==
  \E r \in Requests : r.route = "checkTimes" /\ Begin(r)

\* The provider answers with data: the handler resumes after its await,
\* processes the data and sends the result.
ProviderResponds ==
  /\ hpc = "awaiting"
  /\ \E c \in ReplyCollections :
       LET data == [collection |-> c]
       IN /\ reply' = [kind |-> "ok", data |-> data]
          /\ availabilityData' = data
          /\ IF req.route \in SummaryRoutes
             THEN /\ summary' = processAvailabilityToSummary(data)
                  /\ pc' = "summary"
                  /\ resp' = [status |-> 200, success |-> TRUE,
                              event_type |-> req.eventTypeUrl,
                              date_range |-> [start |-> range.startTime,
                                              end |-> range.endTime],
                              availability |->
                                processAvailabilityToSummary(data)]
                  /\ UNCHANGED processedSlots
             ELSE /\ processedSlots' =
                       processTimeSlotsForPeriod(data, periodOf(req),
                                                 DefaultEventDuration)
                  /\ pc' = "slots"
                  /\ resp' = [status |-> 200, success |-> TRUE,
                              event_type |-> req.eventTypeUrl,
                              availability |->
                                processTimeSlotsForPeriod(data, periodOf(req),
                                                          DefaultEventDuration)]
                  /\ UNCHANGED summary
  /\ hpc' = "done"
  /\ UNCHANGED <<rangeVars, period, eventDuration, loopVars, req, calls,
                 envVars>>

\* The provider call fails: getAvailabilityData's catch block throws on,
\* and the handler's catch block answers.
ProviderFails ==
  /\ hpc = "awaiting"
  /\ \E e \in ProviderErrors :
       /\ reply' = e
       /\ resp' = failureResponse(catchError(req.route), fetchError(e).message)
  /\ hpc' = "done"
  /\ UNCHANGED <<rangeVars, slotVars, summary, loopVars, pc, req, calls,
                 envVars>>

HandlerNext ==
  \/ GetAvailabilitySummary
  \/ GetAvailabilityTimes
  \/ handleCheckAvailability
  \/ handleCheckTimes
  \/ ProviderResponds
  \/ ProviderFails

HandlerSpec == HandlerInit /\ [][HandlerNext]_vars

-----------------------------------------------------------------------------
(* Properties of the request handlers *)

\* The request's event identifier is missing or is no event type URI.
BadEventIdentifier == req.eventTypeUrl \in {Undefined, "not-a-uri"}

\* The request's date is missing or does not parse.
BadDate ==
  /\ req.route \notin SummaryRoutes
  /\ req.date = NoDate \/ ParseDate(req.date) = NaN

\* The request names a period other than the two there are.  (A request
\* without period asks for the morning.)
BadPeriod ==
  /\ req.route \notin SummaryRoutes
  /\ req.period \notin {Undefined, "morning", "afternoon"}

\* C16 as stated: a request whose event identifier, date or period is
\* missing or malformed is rejected with a validation failure before any
\* call to the provider is issued, on every one of the four handlers.
C16_Original ==
  (req # NoRequest /\ (BadEventIdentifier \/ BadDate \/ BadPeriod)) =>
    /\ calls = 0
    /\ hpc = "done"
    /\ resp.status = 400
    /\ resp.success = FALSE

\* C17: a request issues at most one availability call to the provider;
\* when that call fails no second call follows, the request ends in a
\* failure response (success false), and neither the summarizer nor the
\* slot enumerator has produced a result for it.
C17_SingleCallNoRetry ==
  /\ calls <= 1
  /\ hpc = "awaiting" => calls = 1
  /\ (hpc = "done" /\ reply.kind = "error") =>
       /\ calls = 1
       /\ resp.success = FALSE
       /\ "availability" \notin DOMAIN resp
       /\ pc = "idle"
       /\ summary = << >>
       /\ processedSlots = << >>

\* C17 witness: the provider call of a day-slots request failed and the
\* request ended in a failure response after that one call.
C17_Witness ==
  /\ hpc = "done"
  /\ req.route = "checkTimes"
  /\ reply.kind = "error"
  /\ reply.status = 500
  /\ calls = 1
  /\ resp.status = 500
  /\ resp.success = FALSE

\* C18 as stated: when the provider call errors or returns a non-success
\* status, the failure delivered to the caller carries the provider's
\* message.
C18_Original ==
  (hpc = "done" /\ reply.kind = "error") => resp.message = reply.message

-----------------------------------------------------------------------------
(* Time zone detection (utils/time-utils.js) and the environment *)

\* Values of an environment variable: unset, empty, or a given text.
EnvTimeZones == {Undefined, "", "Europe/Berlin", "Asia/Tokyo"}
EnvApiKeys == {Undefined, "key1"}
EnvAdminPasswords == {Undefined, "pw1"}

\* The || of JavaScript on the values modelled: the first operand unless it
\* is undefined or the empty string.
OrElse(a, b) == IF a = Undefined \/ a = "" THEN b ELSE a

\* module.exports of config/environment.js, from process.env.
environment(apiKey, adminPassword, defaultTimeZone) ==
  [loaded |-> TRUE,
   apiKey |-> apiKey,
   adminPassword |-> adminPassword,
   defaultTimeZone |-> OrElse(defaultTimeZone, "UTC")]

Environments ==
  { environment(k, a, z) :
      k \in EnvApiKeys, a \in EnvAdminPasswords, z \in EnvTimeZones }

\* COUNTRY_TIMEZONE_MAP
COUNTRY_TIMEZONE_MAP ==
  [c \in {"US", "GB", "CA", "AU", "NZ", "IN", "JP", "CN", "DE", "FR", "ES",
          "IT"} |->
     CASE c = "US" -> "America/New_York"
       [] c = "GB" -> "Europe/London"
       [] c = "CA" -> "America/Toronto"
       [] c = "AU" -> "Australia/Sydney"
       [] c = "NZ" -> "Pacific/Auckland"
       [] c = "IN" -> "Asia/Kolkata"
       [] c = "JP" -> "Asia/Tokyo"
       [] c = "CN" -> "Asia/Shanghai"
       [] c = "DE" -> "Europe/Berlin"
       [] c = "FR" -> "Europe/Paris"
       [] c = "ES" -> "Europe/Madrid"
       [] c = "IT" -> "Europe/Rome"]

\* COUNTRY_TIMEZONE_MAP[country]: undefined for a key the map does not have.
lookupTimeZone(country) ==
  IF country \in DOMAIN COUNTRY_TIMEZONE_MAP
  THEN COUNTRY_TIMEZONE_MAP[country]
  ELSE Undefined

\* Caller identifiers: absent, empty, texts that are no phone number, a
\* number of no country (+800), numbers of mapped countries and numbers of
\* countries the map does not have.
NumbersByCountry ==
  [n \in {"+12125550100", "+442079460000", "+4930123456", "+33142685300",
          "+81312345678", "+61291234567", "+5511987654321", "+27211234567"}
     |->
     CASE n = "+12125550100" -> "US"
       [] n = "+442079460000" -> "GB"
       [] n = "+4930123456" -> "DE"
       [] n = "+33142685300" -> "FR"
       [] n = "+81312345678" -> "JP"
       [] n = "+61291234567" -> "AU"
       [] n = "+5511987654321" -> "BR"
       [] n = "+27211234567" -> "ZA"]

NotNumbers == {"hello", "12", "+"}

PhoneNumbers ==
  {Undefined, "", "+80012345678"} \cup NotNumbers \cup DOMAIN NumbersByCountry

\* parsePhoneNumber of libphonenumber-js, called without a default country:
\* it throws a ParseError on a text that is no phone number, and returns a
\* PhoneNumber whose country is undefined for a non-geographic number.
parsePhoneNumber(text) ==
  IF text \in NotNumbers
  THEN [kind |-> "throws"]
  ELSE IF text \in DOMAIN NumbersByCountry
       THEN [kind |-> "number", country |-> NumbersByCountry[text]]
       ELSE [kind |-> "number", country |-> Undefined]

\* What a call that ends in an uncaught exception leaves its caller with.
Raised == "<raised>"

\* Mutant: the lookup is not wrapped in try/catch.
detectTimeZone_noCatch(phoneNumber) ==
  IF phoneNumber = Undefined \/ phoneNumber = ""
  THEN OrElse(config.defaultTimeZone, "UTC")
  ELSE LET parsedNumber == parsePhoneNumber(phoneNumber)
       IN IF parsedNumber.kind = "throws"
          THEN Raised
          ELSE IF parsedNumber.country = Undefined
               THEN OrElse(config.defaultTimeZone, "UTC")
               ELSE OrElse(lookupTimeZone(parsedNumber.country),
                           OrElse(config.defaultTimeZone, "UTC"))

detectTimeZone(phoneNumber) ==
  IF phoneNumber = Undefined \/ phoneNumber = ""
  THEN OrElse(config.defaultTimeZone, "UTC")
  ELSE LET parsedNumber == parsePhoneNumber(phoneNumber)
       IN IF parsedNumber.kind = "throws"
          THEN OrElse(config.defaultTimeZone, "UTC")
          ELSE IF parsedNumber.country = Undefined
               THEN OrElse(config.defaultTimeZone, "UTC")
               ELSE OrElse(lookupTimeZone(parsedNumber.country),
                           OrElse(config.defaultTimeZone, "UTC"))

ZoneInit ==
  /\ tz = 0
  /\ now = 0
  /\ pc = "idle"
  /\ weekOffset = 0
  /\ specificDate = NoDate
  /\ range = NoRange
  /\ availabilityData = [collection |-> << >>]
  /\ period = "morning"
  /\ eventDuration = DefaultEventDuration
  /\ processedSlots = << >>
  /\ summary = << >>
  /\ loopIdx = 0
  /\ walkTime = 0
  /\ req = NoRequest
  /\ hpc = "idle"
  /\ calls = 0
  /\ reply = NoReply
  /\ resp = NoResponse
  /\ config \in Environments
  /\ timeZone = NoZone
  /\ sessions = NoSessions

\* POST /personalization: formatDateTime(now, callerNumber) asks
\* detectTimeZone for the caller's zone.
CallDetectTimeZone ==
  /\ hpc = "idle"
  /\ \E p \in PhoneNumbers :
       /\ req' = [route |-> "personalization", caller_number |-> p]
       /\ timeZone' = detectTimeZone(p)
  /\ hpc' = "done"
  /\ UNCHANGED <<rangeVars, slotVars, summary, loopVars, pc, calls, reply,
                 resp, config, sessions>>

ZoneNext == CallDetectTimeZone

ZoneSpec == ZoneInit /\ [][ZoneNext]_vars

-----------------------------------------------------------------------------
(* Properties of time zone detection *)

ZoneAsked == hpc = "done" /\ req.route = "personalization"

\* The zone the deployment falls back to: DEFAULT_TIMEZONE, UTC without.
ConfiguredDefault ==
  IF config.defaultTimeZone \in {Undefined, ""}
  THEN "UTC"
  ELSE config.defaultTimeZone

\* The country the caller identifier belongs to, when it is a phone number
\* of a country and the map has a zone for that country.
HasMappedCountry ==
  /\ req.caller_number \in DOMAIN NumbersByCountry
  /\ NumbersByCountry[req.caller_number] \in DOMAIN COUNTRY_TIMEZONE_MAP

\* C21: detectTimeZone never raises: when the caller identifier is absent,
\* is no phone number, or belongs to a country without mapped zone, it
\* returns the configured default zone (UTC when none is configured);
\* otherwise it returns the zone mapped to the number's country.
C21_ZoneFallback ==
  ZoneAsked =>
    /\ timeZone # Raised
    /\ timeZone =
         IF HasMappedCountry
         THEN COUNTRY_TIMEZONE_MAP[NumbersByCountry[req.caller_number]]
         ELSE ConfiguredDefault

\* C21 witness: a caller identifier that is no phone number, on a
\* deployment without DEFAULT_TIMEZONE, was given UTC.
C21_Witness ==
  /\ ZoneAsked
  /\ req.caller_number = "hello"
  /\ timeZone = "UTC"

-----------------------------------------------------------------------------
(* Authentication (middleware/auth.js) and the middleware order of server.js *)

AdminPages == {"/agent-builder.html", "/prompt-builder.html"}

ApiPaths ==
  {"/api/calendly/availability/summary", "/api/elevenlabs/function-handler"}

Paths == {"/health"} \cup AdminPages \cup ApiPaths

\* Values of the X-API-Key header.
ApiKeyHeaders == {Undefined, "key1", "wrong"}

\* Buffer.from(payload, 'base64').toString('ascii').split(':') for the
\* payloads of the Authorization headers modelled: the decoded text, cut at
\* its colons.
DecodedCredentials ==
  [b \in {"", "dXNlcg==", "dXNlcjo=", "dXNlcjpwdzE=", "dXNlcjp3cm9uZw==",
          "dXNlcjpwdzE6eA=="} |->
     CASE b = "" -> << "" >>
       [] b = "dXNlcg==" -> << "user" >>
       [] b = "dXNlcjo=" -> << "user", "" >>
       [] b = "dXNlcjpwdzE=" -> << "user", "pw1" >>
       [] b = "dXNlcjp3cm9uZw==" -> << "user", "wrong" >>
       [] b = "dXNlcjpwdzE6eA==" -> << "user", "pw1", "x" >>]

\* Authorization headers: none; one word without payload ("Basic"); a
\* scheme and a payload ("Basic dXNlcjpwdzE=", "Bearer dXNlcjpwdzE=").
NoHeader == [scheme |-> Undefined, payload |-> Undefined]

AuthorizationHeaders ==
  {NoHeader, [scheme |-> "Basic", payload |-> Undefined]}
  \cup { [scheme |-> "Basic", payload |-> b] : b \in DOMAIN DecodedCredentials }
  \cup { [scheme |-> "Bearer", payload |-> "dXNlcjpwdzE="] }

HttpRequests ==
  { [route |-> "http", path |-> p, xApiKey |-> k, authorization |-> h] :
      p \in Paths, k \in ApiKeyHeaders, h \in AuthorizationHeaders }

\* const [, password] = credentials.split(':'): the second part, undefined
\* when the text has no colon.
passwordOf(payload) ==
  LET parts == DecodedCredentials[payload]
  IN IF Len(parts) >= 2 THEN parts[2] ELSE Undefined

\* authenticateApiKey: TRUE when it calls next(), FALSE when it answers 401.
authenticateApiKey(r) ==
  IF r.xApiKey # Undefined /\ r.xApiKey # "" /\ r.xApiKey = config.apiKey
  THEN TRUE
  ELSE IF /\ r.authorization.scheme = "Basic"
          /\ r.authorization.payload # Undefined
       THEN passwordOf(r.authorization.payload) = config.adminPassword
       ELSE FALSE

\* adminAuth: TRUE when it calls next(), FALSE when it answers 401.  A
\* header without payload makes Buffer.from throw, which is caught.
adminAuth(r) ==
  IF r.authorization = NoHeader
  THEN FALSE
  ELSE IF r.authorization.payload = Undefined
       THEN FALSE
       ELSE passwordOf(r.authorization.payload) = config.adminPassword

\* res.status(401)
unauthorized == [status |-> 401, error |-> "Unauthorized"]

AuthInit ==
  /\ tz = 0
  /\ now = 0
  /\ pc = "idle"
  /\ weekOffset = 0
  /\ specificDate = NoDate
  /\ range = NoRange
  /\ availabilityData = [collection |-> << >>]
  /\ period = "morning"
  /\ eventDuration = DefaultEventDuration
  /\ processedSlots = << >>
  /\ summary = << >>
  /\ loopIdx = 0
  /\ walkTime = 0
  /\ req = NoRequest
  /\ hpc = "idle"
  /\ calls = 0
  /\ reply = NoReply
  /\ resp = NoResponse
  /\ config \in Environments
  /\ timeZone = NoZone
  /\ sessions = NoSessions

\* A request runs through the middleware up to its route handler (hpc
\* "routed") or is answered by a middleware (hpc "done").
Route(r, letThrough) ==
  /\ hpc = "idle"
  /\ req' = r
  /\ IF letThrough
     THEN hpc' = "routed" /\ UNCHANGED resp
     ELSE hpc' = "done" /\ resp' = unauthorized
  /\ UNCHANGED <<rangeVars, slotVars, summary, loopVars, pc, calls, reply,
                 envVars>>

\* app.get(['/agent-builder.html', '/prompt-builder.html'], auth.adminAuth)
GetAdminPage ==
  \E r \in HttpRequests : r.path \in AdminPages /\ Route(r, adminAuth(r))

\* app.get('/health'): registered before the authentication middleware.
GetHealth ==
  \E r \in HttpRequests : r.path = "/health" /\ Route(r, TRUE)

\* app.use('/api', auth.authenticateApiKey), then the API routes.
UseApi ==
  \E r \in HttpRequests : r.path \in ApiPaths /\ Route(r, authenticateApiKey(r))

AuthNext == GetAdminPage \/ GetHealth \/ UseApi

AuthSpec == AuthInit /\ [][AuthNext]_vars

-----------------------------------------------------------------------------
(* Properties of authentication *)

Served == hpc # "idle" /\ req.route = "http"

\* The request carries an X-API-Key equal to the configured API key.
ValidApiKey ==
  /\ config.apiKey # Undefined
  /\ req.xApiKey = config.apiKey

\* The request carries credentials whose password is the configured admin
\* password.
ValidPassword ==
  /\ config.adminPassword # Undefined
  /\ req.authorization.payload # Undefined
  /\ Len(DecodedCredentials[req.authorization.payload]) >= 2
  /\ DecodedCredentials[req.authorization.payload][2] = config.adminPassword

\* C23 as stated: every endpoint requires authentication; a request that
\* carries neither a valid X-API-Key nor credentials with the admin
\* password is answered 401 and reaches no route handler.
C23_Original ==
  (Served /\ ~ValidApiKey /\ ~ValidPassword) =>
    /\ hpc = "done"
    /\ resp.status = 401

\* C30 as stated: a secret that is not configured authenticates nobody.
\* With ADMIN_PASSWORD unset, a request that authenticateApiKey or adminAuth
\* lets through was let through for its X-API-Key; with API_KEY unset, one
\* that authenticateApiKey lets through was let through for its password.
C30_Original ==
  (Served /\ hpc = "routed" /\ req.path # "/health") =>
    /\ config.adminPassword = Undefined =>
         (req.path \in ApiPaths /\ ValidApiKey)
    /\ (config.apiKey = Undefined /\ req.path \in ApiPaths) =>
         /\ req.authorization.payload # Undefined
         /\ passwordOf(req.authorization.payload) = config.adminPassword

-----------------------------------------------------------------------------
(* The period of the slots themselves *)

\* The hour of a returned slot's timestamp lies in the requested period.
SlotInPeriod(j) ==
  LET h == (processedSlots[j].timestamp \div MsPerHour) % 24
  IN IF period = "morning" THEN h >= 5 /\ h < 12 ELSE h >= 12 /\ h < 17

\* C29 as stated: every slot returned for 'morning' has a timestamp whose
\* hour lies in [5,12) and every slot returned for 'afternoon' one whose
\* hour lies in [12,17); no slot is offered under a period in which it does
\* not itself start.
C29_Original ==
  Enumerated => \A j \in DOMAIN processedSlots : SlotInPeriod(j)

-----------------------------------------------------------------------------
(* The summarizer and the enumerator on one provider reply *)

\* Interval starts of one queried week: Monday 09:00, 11:30 and 12:00 UTC,
\* Tuesday 02:00 UTC (still Monday evening west of Greenwich) and Tuesday
\* 12:00 UTC.
AgreementStarts ==
  { 9 * MsPerHour, 11 * MsPerHour + 30 * MsPerMinute, 12 * MsPerHour,
    MsPerDay + 2 * MsPerHour, MsPerDay + 12 * MsPerHour }

\* Each without end_time, with an end_time equal to the start, and with an
\* end_time one hour later.
AgreementIntervals ==
  { [start_time |-> s, scheduling_url |-> "url1"] : s \in AgreementStarts }
  \cup
  { [start_time |-> s, end_time |-> s + l * MsPerMinute,
     scheduling_url |-> "url1"] : s \in AgreementStarts, l \in {0, 60} }

AgreementCollections ==
  UNION { [1..n -> AgreementIntervals] : n \in 0..MaxIntervals }

AgreementInit ==
  /\ tz \in Zones
  /\ now = 0
  /\ pc = "idle"
  /\ weekOffset = 0
  /\ specificDate = NoDate
  /\ range = NoRange
  /\ availabilityData \in { [collection |-> c] : c \in AgreementCollections }
  /\ period \in {"morning", "afternoon"}
  /\ eventDuration \in {DefaultEventDuration, 60}
  /\ processedSlots = << >>
  /\ summary = << >>
  /\ loopIdx = 0
  /\ walkTime = 0
  /\ req = NoRequest
  /\ hpc = "idle"
  /\ calls = 0
  /\ reply = NoReply
  /\ resp = NoResponse
  /\ config = NoConfig
  /\ timeZone = NoZone
  /\ sessions = NoSessions

\* processTimeSlotsForPeriod(availabilityData, period, eventDuration), on
\* the reply that was summarized.
CallProcessTimeSlotsOnSummarized ==
  /\ pc = "summary"
  /\ processedSlots' =
       processTimeSlotsForPeriod(availabilityData, period, eventDuration)
  /\ pc' = "both"
  /\ UNCHANGED <<rangeVars, availabilityData, period, eventDuration,
                 summary, loopVars, handlerVars, envVars>>

AgreementNext ==
  \/ CallProcessSummary
  \/ CallProcessTimeSlotsOnSummarized

AgreementSpec == AgreementInit /\ [][AgreementNext]_vars

-----------------------------------------------------------------------------
(* Agreement of the summary and the enumeration *)

BothReturned == pc = "both"

\* Every interval of the reply ends after it starts.
AllIntervalsNonEmpty ==
  \A i \in DOMAIN availabilityData.collection :
    EffectiveEnd(availabilityData.collection[i])
      > availabilityData.collection[i].start_time

\* The summary marks the requested period YES for the day named n.
MarkedYes(n) ==
  /\ n \in DOMAIN summary
  /\ IF period = "morning"
     THEN summary[n].morning = "YES"
     ELSE summary[n].afternoon = "YES"

\* The enumeration holds a slot that comes from an interval of the day
\* named n.
SlotFromDay(n) ==
  \E j \in DOMAIN processedSlots :
    \E i \in IntervalsOfEntry(n) \cap Selected :
      /\ processedSlots[j].scheduling_url
           = availabilityData.collection[i].scheduling_url
      /\ processedSlots[j].timestamp
           \in ExpectedTimestamps(availabilityData.collection[i])

WeekdayNames == { DayNames[k] : k \in DOMAIN DayNames }

\* C28: on one provider reply in which every interval's effective end is
\* after its start, for every day and for the period P in {morning,
\* afternoon} that was asked for, the summary marks P YES for the day
\* exactly when processTimeSlotsForPeriod with P returns at least one slot
\* that comes from an interval of that day; the days are the ones the
\* summary is keyed by, the weekdays of the interval starts on the host.
C28_SummaryAgreesWithSlots ==
  (BothReturned /\ AllIntervalsNonEmpty) =>
    \A n \in WeekdayNames : MarkedYes(n) <=> SlotFromDay(n)

\* Reached: a Monday interval 11:30-12:30 and a Tuesday interval at 12:00,
\* asked for the morning: Monday is marked and has slots, Tuesday neither.
C28_Witness ==
  /\ BothReturned
  /\ AllIntervalsNonEmpty
  /\ period = "morning"
  /\ Len(availabilityData.collection) = 2
  /\ availabilityData.collection[1].start_time
       = 11 * MsPerHour + 30 * MsPerMinute
  /\ "end_time" \in DOMAIN availabilityData.collection[1]
  /\ availabilityData.collection[1].end_time
       = 12 * MsPerHour + 30 * MsPerMinute
  /\ availabilityData.collection[2].start_time = MsPerDay + 12 * MsPerHour
  /\ MarkedYes("Monday")
  /\ SlotFromDay("Monday")
  /\ ~MarkedYes("Tuesday")
  /\ ~SlotFromDay("Tuesday")
  /\ Len(processedSlots) >= 1

-----------------------------------------------------------------------------
(* Two scheduling requests served at once *)

\* The requests in flight. Node runs a handler without interruption from
\* its entry to its await and from the provider's answer to its response,
\* so a request has two steps and the steps of two requests interleave.
SessionIds == {1, 2}

\* What the two callers ask for: the week summary of this week and of the
\* next, the slots of the Friday of the clock readings for either period,
\* and a slot request without date.
ConcurrentRequests ==
  { [route |-> "checkAvailability",
     eventTypeUrl |-> "https://api.calendly.com/event_types/E1",
     weekOffset |-> w] : w \in {0, 1} }
  \cup
  { [route |-> "checkTimes",
     eventTypeUrl |-> "https://api.calendly.com/event_types/E1",
     date |-> DateString(-3), period |-> p] : p \in {"morning", "afternoon"} }
  \cup
  { [route |-> "checkTimes",
     eventTypeUrl |-> "https://api.calendly.com/event_types/E1",
     date |-> NoDate, period |-> Undefined] }

\* Clock readings: Friday morning, Friday after the workday and Sunday
\* afternoon, host-local.
ConcurrentReadings ==
  { (-3) * MsPerDay + 10 * MsPerHour - tz * MsPerHour,
    (-3) * MsPerDay + 17 * MsPerHour - tz * MsPerHour,
    (-1) * MsPerDay + 13 * MsPerHour - tz * MsPerHour }

\* A handler that has not been entered.
IdleSession == [hpc |-> "idle"]

\* const currentTime = calendlyService.getCurrentTime()
currentTimeOf(clock) == [timestamp |-> clock, timezone |-> "UTC"]

\* Mutant: the range of whichever request called getDateRange last.
rangeFor_shared(i) == range

\* const { startTime, endTime } of handler invocation i.
rangeFor(i) == sessions[i].range

\* The range handler invocation asks getDateRange for, at its clock reading.
sessionRange(r, clock) ==
  IF r.route \in SummaryRoutes
  THEN getDateRange(clock, r.weekOffset, NoDate)
  ELSE getDateRange(clock, 0, r.date)

\* The provider's answers to a query for the range rg: intervals on the
\* next full hour after its start and four hours later.
repliesFor(rg) ==
  LET a == ((rg.startTime \div MsPerHour) + 1) * MsPerHour
      first == [start_time |-> a, scheduling_url |-> "url1"]
      second == [start_time |-> a + 4 * MsPerHour, scheduling_url |-> "url2"]
  IN { << >> }
     \cup (IF a < rg.endTime THEN { << first >> } ELSE {})
     \cup (IF a + 4 * MsPerHour < rg.endTime
           THEN { << first, second >> }
           ELSE {})

\* res.json({success: true, current_time, event_type, ...}) of invocation i
\* on the provider's data.
successResponse(i, data) ==
  LET s == sessions[i]
  IN IF s.req.route \in SummaryRoutes
     THEN [status |-> 200, success |-> TRUE,
           current_time |-> s.currentTime,
           event_type |-> s.req.eventTypeUrl,
           date_range |-> [start |-> rangeFor(i).startTime,
                           end |-> rangeFor(i).endTime],
           availability |-> processAvailabilityToSummary(data)]
     ELSE [status |-> 200, success |-> TRUE,
           current_time |-> s.currentTime,
           event_type |-> s.req.eventTypeUrl,
           date |-> s.req.date,
           period |-> periodOf(s.req),
           availability |->
             processTimeSlotsForPeriod(data, periodOf(s.req),
                                       DefaultEventDuration)]

ConcurrentInit ==
  /\ tz \in Zones
  /\ now \in ConcurrentReadings
  /\ pc = "idle"
  /\ weekOffset = 0
  /\ specificDate = NoDate
  /\ range = NoRange
  /\ availabilityData = [collection |-> << >>]
  /\ period = "morning"
  /\ eventDuration = DefaultEventDuration
  /\ processedSlots = << >>
  /\ summary = << >>
  /\ loopIdx = 0
  /\ walkTime = 0
  /\ req = NoRequest
  /\ hpc = "idle"
  /\ calls = 0
  /\ reply = NoReply
  /\ resp = NoResponse
  /\ config = NoConfig
  /\ timeZone = NoZone
  /\ sessions = [i \in SessionIds |-> IdleSession]

\* Time passes between the steps of the requests.
ConcurrentTick ==
  /\ \E t \in ConcurrentReadings : t > now /\ now' = t
  /\ UNCHANGED <<tz, pc, weekOffset, specificDate, range, slotVars, summary,
                 loopVars, handlerVars, envVars>>

\* Invocation i of handleCheckAvailability or handleCheckTimes from its
\* entry to its await: the validations, the clock reading, getDateRange,
\* and getAvailabilityData up to calendlyApi.get.
SessionBegin(i) ==
  /\ sessions[i].hpc = "idle"
  /\ \E r \in ConcurrentRequests :
       IF validationError(r) # ""
       THEN /\ sessions' =
                 [sessions EXCEPT ![i] =
                    [hpc |-> "done", req |-> r, clock |-> now,
                     reply |-> NoReply,
                     resp |-> badRequest(validationError(r))]]
            /\ UNCHANGED <<range, calls>>
       ELSE /\ range' = sessionRange(r, now)
            /\ IF toISOStringThrows(sessionRange(r, now))
               THEN /\ sessions' =
                         [sessions EXCEPT ![i] =
                            [hpc |-> "done", req |-> r, clock |-> now,
                             reply |-> NoReply,
                             resp |-> failureResponse(
                                        catchError(r.route),
                                        fetchError("RangeError").message)]]
                    /\ UNCHANGED calls
               ELSE /\ sessions' =
                         [sessions EXCEPT ![i] =
                            [hpc |-> "awaiting", req |-> r, clock |-> now,
                             currentTime |-> currentTimeOf(now),
                             range |-> sessionRange(r, now)]]
                    /\ calls' = calls + 1
  /\ UNCHANGED <<now, tz, pc, weekOffset, specificDate, slotVars, summary,
                 loopVars, req, hpc, reply, resp, config, timeZone>>

\* The provider answers invocation i with data: the handler resumes after
\* its await, processes the data and sends the result.
SessionResponds(i) ==
  /\ sessions[i].hpc = "awaiting"
  /\ \E c \in repliesFor(sessions[i].range) :
       LET data == [collection |-> c]
       IN sessions' =
            [sessions EXCEPT ![i] =
               [hpc |-> "done", req |-> sessions[i].req,
                clock |-> sessions[i].clock,
                reply |-> [kind |-> "ok", data |-> data],
                resp |-> successResponse(i, data)]]
  /\ UNCHANGED <<now, tz, pc, weekOffset, specificDate, range, slotVars,
                 summary, loopVars, handlerVars, config, timeZone>>

\* The provider call of invocation i fails: getAvailabilityData's catch
\* block throws on, and the handler's catch block answers.
SessionFails(i) ==
  /\ sessions[i].hpc = "awaiting"
  /\ \E e \in ProviderErrors :
       sessions' =
         [sessions EXCEPT ![i] =
            [hpc |-> "done", req |-> sessions[i].req,
             clock |-> sessions[i].clock,
             reply |-> e,
             resp |-> failureResponse(catchError(sessions[i].req.route),
                                      fetchError(e).message)]]
  /\ UNCHANGED <<now, tz, pc, weekOffset, specificDate, range, slotVars,
                 summary, loopVars, handlerVars, config, timeZone>>

BeginRequest == \E i \in SessionIds : SessionBegin(i)

ResumeWithData == \E i \in SessionIds : SessionResponds(i)

ResumeWithError == \E i \in SessionIds : SessionFails(i)

ConcurrentNext ==
  \/ ConcurrentTick
  \/ BeginRequest
  \/ ResumeWithData
  \/ ResumeWithError

ConcurrentSpec == ConcurrentInit /\ [][ConcurrentNext]_vars

-----------------------------------------------------------------------------
(* Properties of requests served at once *)

\* The response of a request served alone, from the request, the clock
\* reading at its entry and the provider's reply.
AloneResponse(r, clock, answer) ==
  IF validationError(r) # ""
  THEN badRequest(validationError(r))
  ELSE LET rg == IF r.route = "checkAvailability"
                 THEN getDateRange(clock, r.weekOffset, NoDate)
                 ELSE getDateRange(clock, 0, r.date)
       IN IF rg.startTime = NaN \/ rg.endTime = NaN \/ answer.kind = "error"
          THEN [status |-> 500, success |-> FALSE,
                error |-> IF r.route = "checkAvailability"
                          THEN "Failed to check availability"
                          ELSE "Failed to check times",
                message |-> "Failed to fetch availability"]
          ELSE IF r.route = "checkAvailability"
               THEN [status |-> 200, success |-> TRUE,
                     current_time |-> [timestamp |-> clock,
                                       timezone |-> "UTC"],
                     event_type |-> r.eventTypeUrl,
                     date_range |-> [start |-> rg.startTime,
                                     end |-> rg.endTime],
                     availability |->
                       processAvailabilityToSummary(answer.data)]
               ELSE [status |-> 200, success |-> TRUE,
                     current_time |-> [timestamp |-> clock,
                                       timezone |-> "UTC"],
                     event_type |-> r.eventTypeUrl,
                     date |-> r.date,
                     period |-> IF r.period = Undefined
                                THEN "morning" ELSE r.period,
                     availability |->
                       processTimeSlotsForPeriod(
                         answer.data,
                         IF r.period = Undefined THEN "morning" ELSE r.period,
                         30)]

Answered(i) == sessions[i].hpc = "done"

\* C22: under every interleaving of the steps of two scheduling requests,
\* the response of each request is the response the same request produces
\* when it is served alone with the same clock reading and the same
\* provider reply.
C22_NoInterference ==
  \A i \in SessionIds :
    Answered(i) =>
      sessions[i].resp
        = AloneResponse(sessions[i].req, sessions[i].clock, sessions[i].reply)

\* Reached: request 1 asked for this week's summary, request 2 then asked
\* for another range while request 1 was waiting, and request 1 was
\* answered from data before request 2.
C22_Witness ==
  /\ Answered(1)
  /\ sessions[1].req.route = "checkAvailability"
  /\ sessions[1].req.weekOffset = 0
  /\ sessions[1].resp.status = 200
  /\ sessions[1].resp.availability # << >>
  /\ sessions[2].hpc = "awaiting"
  /\ sessions[2].range # NoRange
  /\ range = sessions[2].range
  /\ range.startTime # sessions[1].resp.date_range.start
  /\ sessions[2].clock > sessions[1].clock

====
